---- MODULE Spec2Model ----
(***************************************************************************)
(* A model of the RESP key/value server of src/src/main.rs: the frame      *)
(* decoder (parse_array, parse_bulk_string, parse_redis_command), the      *)
(* dispatcher with its mutex-protected HashMap, the reply encoder and the  *)
(* per-connection handler loop spawned by main.                            *)
(*                                                                         *)
(* Bytes are integers 0..255.  A Rust String is a sequence of chars, each  *)
(* a code point 0..255 (the decoder builds strings with char::from(u8));   *)
(* its bytes on the wire are its UTF-8 encoding.                           *)
(***************************************************************************)
EXTENDS Integers, Sequences, FiniteSets, TLC

\* ------------------------------------------------------------------ bytes

\* let mut buf = [0; 512]
BufSize == 512

CR == 13
LF == 10
Dollar == 36
Star == 42
Zero == 48
U8Mod == 256

CRLF == <<CR, LF>>

\* ASCII spellings used by the server and by clients
PING_w == <<80, 73, 78, 71>>
ECHO_w == <<69, 67, 72, 79>>
SET_w == <<83, 69, 84>>
GET_w == <<71, 69, 84>>
PX_w == <<80, 88>>
ping_lc == <<112, 105, 110, 103>>
echo_lc == <<101, 99, 104, 111>>
set_lc == <<115, 101, 116>>
get_lc == <<103, 101, 116>>

RECURSIVE Flatten(_)
\* concatenation of a sequence of sequences
Flatten(ss) ==
    IF Len(ss) = 0 THEN <<>>
    ELSE IF Len(ss) = 1 THEN ss[1]
    ELSE LET h == Len(ss) \div 2
         IN  Flatten(SubSeq(ss, 1, h)) \o Flatten(SubSeq(ss, h + 1, Len(ss)))

RECURSIVE DecimalString(_)
\* format!("{}", n) of a non-negative integer: its base-10 digits
DecimalString(n) ==
    IF n < 10 THEN <<Zero + n>> ELSE DecimalString(n \div 10) \o <<Zero + (n % 10)>>

\* char::to_lowercase on a char in U+0000..U+00FF
LowerChar(c) ==
    IF c >= 65 /\ c <= 90 THEN c + 32
    ELSE IF c >= 192 /\ c <= 222 /\ c # 215 THEN c + 32
    ELSE c

\* String::to_lowercase
to_lowercase(s) == [i \in 1..Len(s) |-> LowerChar(s[i])]

\* UTF-8 bytes of one char in U+0000..U+00FF
Utf8Char(c) == IF c < 128 THEN <<c>> ELSE <<192 + (c \div 64), 128 + (c % 64)>>

\* String::as_bytes: the UTF-8 encoding of a string
as_bytes(s) == Flatten([i \in 1..Len(s) |-> Utf8Char(s[i])])

\* String::len: the length in bytes of the UTF-8 encoding
str_len(s) == Len(as_bytes(s))

\* ---------------------------------------------------------- frame decoder

\* a panic (assert!, unwrap on None/Err, index out of bounds, overflow check)
Panicked == [ok |-> FALSE]

\* buf[p] of the 512-byte zeroed buffer whose first Len(data) bytes were read
BufAt(data, p) == IF p < Len(data) THEN data[p + 1] ELSE 0

RECURSIVE len_loop(_, _, _, _)
\* while buf[*ptr] != '\r' { len = len * 10 + (buf[*ptr] - zero); *ptr += 1 }, len: u8.
\* oc: the build's overflow checks (panic on overflow) or wrapping arithmetic
len_loop(data, ptr, len, oc) ==
    IF BufAt(data, ptr) = CR THEN [ok |-> TRUE, len |-> len, ptr |-> ptr]
    ELSE LET b == BufAt(data, ptr)
             overflow == \/ len * 10 >= U8Mod
                         \/ b < Zero
                         \/ (len * 10) + (b - Zero) >= U8Mod
         IN  IF oc /\ overflow THEN Panicked
             ELSE len_loop(data, ptr + 1,
                           (((len * 10) % U8Mod) + ((b - Zero) % U8Mod)) % U8Mod, oc)

\* the length loop of parse_bulk_string and parse_array.  The bytes past the
\* ones read are zero, never '\r': with no '\r' left the loop ends in a panic
\* (the overflow check on 0 - '0', or the index past the buffer's end)
parse_len(data, ptr, oc) ==
    IF \A q \in ptr..(Len(data) - 1) : BufAt(data, q) # CR THEN Panicked
    ELSE len_loop(data, ptr, 0, oc)

parse_bulk_string(data, ptr, oc) ==
    IF ptr >= BufSize \/ BufAt(data, ptr) # Dollar THEN Panicked
    ELSE LET L == parse_len(data, ptr + 1, oc)
         IN  IF ~L.ok THEN Panicked
             ELSE LET start == L.ptr + 2
                  IN  IF start + L.len > BufSize THEN Panicked
                      ELSE [ok |-> TRUE,
                            result |-> [i \in 1..L.len |-> BufAt(data, start + i - 1)],
                            ptr |-> start + L.len + 2]

RECURSIVE parse_elements(_, _, _, _, _)
\* for _ in 0..len { result.push(parse_bulk_string(buf, ptr)) }
parse_elements(data, ptr, n, acc, oc) ==
    IF n = 0 THEN [ok |-> TRUE, result |-> acc, ptr |-> ptr]
    ELSE LET e == parse_bulk_string(data, ptr, oc)
         IN  IF ~e.ok THEN Panicked
             ELSE parse_elements(data, e.ptr, n - 1, Append(acc, e.result), oc)

parse_array(data, ptr, oc) ==
    LET L == parse_len(data, ptr + 1, oc)
    IN  IF ~L.ok THEN Panicked
        ELSE parse_elements(data, L.ptr + 2, L.len, <<>>, oc)

parse_redis_command(data, oc) ==
    LET A == parse_array(data, 0, oc)
    IN  IF ~A.ok THEN Panicked
        ELSE LET elements == A.result
             IN  IF Len(elements) < 1 THEN Panicked
                 ELSE IF to_lowercase(elements[1]) = ping_lc
                 THEN [ok |-> TRUE, name |-> "PING", operands |-> <<>>]
                 ELSE IF to_lowercase(elements[1]) = echo_lc
                 THEN IF Len(elements) < 2 THEN Panicked
                      ELSE [ok |-> TRUE, name |-> "ECHO", operands |-> <<elements[2]>>]
                 ELSE IF to_lowercase(elements[1]) = set_lc
                 THEN IF Len(elements) < 3 THEN Panicked
                      ELSE IF Len(elements) > 3
                      THEN IF Len(elements) < 5 THEN Panicked
                           ELSE [ok |-> TRUE, name |-> "SET",
                                 operands |-> <<elements[2], elements[3], elements[5]>>]
                      ELSE [ok |-> TRUE, name |-> "SET",
                            operands |-> <<elements[2], elements[3]>>]
                 ELSE IF to_lowercase(elements[1]) = get_lc
                 THEN IF Len(elements) < 2 THEN Panicked
                      ELSE [ok |-> TRUE, name |-> "GET", operands |-> <<elements[2]>>]
                 ELSE Panicked

\* ------------------------------------------------------------ RESP client

\* a bulk string as a client frames it: $<len>\r\n<bytes>\r\n
Bulk(bytes) == <<Dollar>> \o DecimalString(Len(bytes)) \o CRLF \o bytes \o CRLF

\* a request as a client frames it: an array of bulk strings
EncodeRequest(elems) ==
    <<Star>> \o DecimalString(Len(elems)) \o CRLF
        \o Flatten([i \in 1..Len(elems) |-> Bulk(elems[i])])

\* the replies of the wire protocol, as bytes
PONG_reply == <<43, 80, 79, 78, 71>> \o CRLF
OK_reply == <<43, 79, 75>> \o CRLF
NullBulk == <<Dollar, 45, 49>> \o CRLF

\* ------------------------------------------------------------- dispatcher

Plus == 43
Nine == 57

RECURSIVE digits_value(_)
\* the value of a non-empty string of ASCII digits
digits_value(s) ==
    IF Len(s) = 1 THEN s[1] - Zero
    ELSE digits_value(SubSeq(s, 1, Len(s) - 1)) * 10 + (s[Len(s)] - Zero)

\* the longest digit string this model evaluates (u64 holds 20 digits; the
\* requests of the model stay far below)
MaxDigits == 9

\* command.operands[2].parse::<u64>(): an optional '+', then one or more ASCII
\* digits; anything else is Err
parse_u64(s) ==
    LET d == IF Len(s) > 0 /\ s[1] = Plus THEN Tail(s) ELSE s
    IN  IF d = <<>> \/ Len(d) > MaxDigits THEN [ok |-> FALSE]
        ELSE IF \E i \in 1..Len(d) : d[i] < Zero \/ d[i] > Nine THEN [ok |-> FALSE]
        ELSE [ok |-> TRUE, val |-> digits_value(d)]

\* Option<u128>: None is <<>>, Some(t) is <<t>>
None == <<>>
Some(t) == <<t>>

\* format!("${}\r\n{}\r\n", val.len(), val), a String
construct_return_redis_string(val) ==
    <<Dollar>> \o DecimalString(str_len(val)) \o CRLF \o val \o CRLF

\* the largest millisecond a SystemTime narrower than u64 milliseconds holds,
\* on the scale of the model's numbers (see wide_time)
NarrowTimeMax == 1000000

\* SystemTime::checked_add(Duration::from_millis(ms)): None when the sum leaves
\* the platform's SystemTime
checked_add(time, ms, wide) ==
    IF ~wide /\ time + ms > NarrowTimeMax THEN None ELSE Some(time + ms)

\* a SET that swallows the errors of its PX operand (unwrap_or_default): the
\* entry then expires at once
set_value_lenient(cmd, time, wide) ==
    IF Len(cmd.operands) = 2
    THEN [ok |-> TRUE, value |-> cmd.operands[2], expiration |-> None]
    ELSE LET ms == parse_u64(cmd.operands[3])
         IN  IF ms.ok /\ checked_add(time, ms.val, wide) # None
             THEN [ok |-> TRUE, value |-> cmd.operands[2],
                   expiration |-> checked_add(time, ms.val, wide)]
             ELSE [ok |-> TRUE, value |-> cmd.operands[2], expiration |-> Some(time)]

\* the ValueAndExpiration a SET builds before it takes the lock, or a panic
\* of one of its unwraps
set_value(cmd, time, wide) ==
    IF Len(cmd.operands) = 2
    THEN [ok |-> TRUE, value |-> cmd.operands[2], expiration |-> None]
    ELSE LET ms == parse_u64(cmd.operands[3])
         IN  IF ~ms.ok THEN Panicked
             ELSE IF checked_add(time, ms.val, wide) = None THEN Panicked
             ELSE [ok |-> TRUE, value |-> cmd.operands[2],
                   expiration |-> checked_add(time, ms.val, wide)]

\* if time_now > exp
expired(time_now, exp) == time_now > exp

\* an insert that drops every other key
insert_only(d, key, entry) == [x \in {key} |-> entry]

\* HashMap::insert
insert(d, key, entry) ==
    [x \in (DOMAIN d) \cup {key} |-> IF x = key THEN entry ELSE d[x]]

\* ------------------------------------------------------------------ state

\* the connections a run may open
NumConns == 2
Conns == 1..NumConns

\* the wall clock runs from 0 to MaxTime milliseconds
MaxTime == 1

NoHolder == 0

VARIABLES
    overflow_checks,  \* the build: TRUE panics on integer overflow, FALSE wraps
    wide_time,        \* the platform: TRUE when SystemTime holds now + any u64 ms
                      \* (Unix, i64 seconds), FALSE when it does not (Windows,
                      \* i64 ticks of 100 ns)
    listener,         \* main's accept loop: "Listening", or "Panicked" when main
                      \* has panicked and the process has exited
    accept_failed,    \* history: listener.accept() has returned an error
    peer_closed,      \* the client of each connection has closed its end
    now,              \* SystemTime::now(), in ms
    dict,             \* the HashMap behind redis_dict: key -> [value, expiration]
    mutex,            \* the connection whose handler holds the lock, or NoHolder
    pc,               \* each handler's position
    wire,             \* bytes written by the client and not yet read by the handler
    command,          \* the handler's `command`
    value,            \* the `value` a SET built
    response,         \* the handler's `response`
    time_now,         \* the handler's last reading of SystemTime::now()
    out,              \* the replies written to the socket, in order
    sent,             \* history: the requests the client has written, in order
    written,          \* history: the (key, value, expiration) every SET inserted
    got,              \* history: the (key, value, expiration) the last GET evaluated
    lastset,          \* history: who inserted each key's entry, <<conn, request index>>
    expect,           \* history: the value an outstanding GET must return, or <<>>
    aligned           \* history: every read so far ended where a request ends

vars == <<overflow_checks, wide_time, listener, accept_failed, peer_closed, now,
          dict, mutex, pc, wire, command, value, response,
          time_now, out, sent, written, got, lastset, expect, aligned>>

hist == <<written, got, lastset, expect, aligned>>

NoCommand == [name |-> "NONE", operands |-> <<>>]
NoValue == [value |-> <<>>, expiration |-> None]

Init ==
    /\ overflow_checks \in BOOLEAN
    /\ wide_time \in BOOLEAN
    /\ listener = "Listening"
    /\ accept_failed = FALSE
    /\ peer_closed = [c \in Conns |-> FALSE]
    /\ now = 0
    /\ dict = <<>>
    /\ mutex = NoHolder
    /\ pc = [c \in Conns |-> "Unaccepted"]
    /\ wire = [c \in Conns |-> <<>>]
    /\ command = [c \in Conns |-> NoCommand]
    /\ value = [c \in Conns |-> NoValue]
    /\ response = [c \in Conns |-> <<>>]
    /\ time_now = [c \in Conns |-> 0]
    /\ out = [c \in Conns |-> <<>>]
    /\ sent = [c \in Conns |-> <<>>]
    /\ written = {}
    /\ got = [c \in Conns |-> <<>>]
    /\ lastset = <<>>
    /\ expect = [c \in Conns |-> <<>>]
    /\ aligned = [c \in Conns |-> TRUE]

\* the initial states on a platform with the wide SystemTime
InitWide == Init /\ wide_time = TRUE

\* the initial states on a platform with the narrow SystemTime
InitNarrow == Init /\ wide_time = FALSE

\* ------------------------------------------------- requests, as clients see them

IsWord(e, lc) == to_lowercase(e) = lc
IsDigits(e) == Len(e) > 0 /\ \A i \in 1..Len(e) : e[i] >= Zero /\ e[i] <= Nine

IsPing(r) == Len(r) >= 1 /\ IsWord(r[1], ping_lc)
IsEcho(r) == Len(r) = 2 /\ IsWord(r[1], echo_lc)
IsGet(r) == Len(r) = 2 /\ IsWord(r[1], get_lc)
IsSetPlain(r) == Len(r) = 3 /\ IsWord(r[1], set_lc)
IsSetPx(r) ==
    Len(r) = 5 /\ IsWord(r[1], set_lc) /\ IsWord(r[4], to_lowercase(PX_w)) /\ IsDigits(r[5])
IsSet(r) == IsSetPlain(r) \/ IsSetPx(r)
ValidRequest(r) == IsPing(r) \/ IsEcho(r) \/ IsGet(r) \/ IsSet(r)
KnownWord(r) ==
    Len(r) >= 1 /\ \E w \in {ping_lc, echo_lc, get_lc, set_lc} : IsWord(r[1], w)

\* the index in sent[c] of the request the handler of c is serving, when the
\* client waits for each reply and every request arrives in one read
Current(c) == Len(out[c]) + 1

\* ---------------------------------------------------------------- actions

\* listener.accept() returns the next stream and main spawns its handler
Accept(c) ==
    /\ listener = "Listening"
    /\ pc[c] = "Unaccepted"
    /\ \A d \in Conns : d < c => pc[d] # "Unaccepted"
    /\ pc' = [pc EXCEPT ![c] = "Reading"]
    /\ UNCHANGED <<overflow_checks, wide_time, listener, accept_failed, peer_closed,
                   now, dict, mutex, wire, command, value, response, time_now, out,
                   sent, hist>>

\* listener.accept().await returns Err: the unwrap panics in main, main
\* returns through block_on and the process exits, and every handler with it
AcceptError ==
    /\ listener = "Listening"
    /\ listener' = "Panicked"
    /\ accept_failed' = TRUE
    /\ pc' = [c \in Conns |-> IF pc[c] = "Unaccepted" THEN "Unaccepted" ELSE "Closed"]
    /\ mutex' = NoHolder
    /\ UNCHANGED <<overflow_checks, wide_time, peer_closed, now, dict, wire,
                   command, value, response, time_now, out, sent, hist>>

\* the wall clock advances
Tick ==
    /\ now < MaxTime
    /\ now' = now + 1
    /\ UNCHANGED <<overflow_checks, wide_time, listener, accept_failed, peer_closed,
                   dict, mutex, pc, wire, command, value, response, time_now, out,
                   sent, hist>>

\* a SET of `key` written by some client and not yet inserted
PendingSet(key) ==
    \E c \in Conns : \E i \in (Len(out[c]) + 1)..Len(sent[c]) :
        /\ Len(sent[c][i]) >= 2 /\ IsWord(sent[c][i][1], set_lc) /\ sent[c][i][2] = key
        /\ ~(key \in DOMAIN lastset /\ lastset[key] = <<c, i>>)

\* what a GET of `key` issued now by connection c must return by the
\* cross-connection rule: <<v>> when another connection has its +OK for a
\* SET key v without expiry, that SET is the last one of the key and no SET of
\* the key is under way
Expected(c, key) ==
    IF /\ key \in DOMAIN lastset
       /\ lastset[key][1] # c
       /\ Len(out[lastset[key][1]]) >= lastset[key][2]
       /\ IsSetPlain(sent[lastset[key][1]][lastset[key][2]])
       /\ ~PendingSet(key)
    THEN <<sent[lastset[key][1]][lastset[key][2]][3]>>
    ELSE <<>>

RECURSIVE SumLen(_, _)
SumLen(f, n) == IF n = 0 THEN 0 ELSE Len(f[n]) + SumLen(f, n - 1)

\* the number of requests written so far, over all connections
TotalSent == SumLen(sent, NumConns)

\* the client of connection c writes request r (a sequence of bulk strings)
Send(c, r, max) ==
    /\ pc[c] \notin {"Unaccepted", "Closed"}
    /\ ~peer_closed[c]
    /\ TotalSent < max
    /\ sent' = [sent EXCEPT ![c] = Append(@, r)]
    /\ wire' = [wire EXCEPT ![c] = @ \o EncodeRequest(r)]
    /\ expect' = [d \in Conns |->
                    IF d = c
                    THEN IF IsGet(r) THEN Expected(c, r[2]) ELSE <<>>
                    ELSE IF /\ Len(r) >= 2 /\ IsWord(r[1], set_lc)
                            /\ Len(sent[d]) > Len(out[d])
                            /\ IsGet(sent[d][Len(sent[d])])
                            /\ sent[d][Len(sent[d])][2] = r[2]
                         THEN <<>>
                         ELSE expect[d]]
    /\ UNCHANGED <<overflow_checks, wide_time, listener, accept_failed, peer_closed,
                   now, dict, mutex, pc, command, value, response, time_now, out,
                   written, got, lastset, aligned>>

\* a client that waits for the reply to each request before it writes the next
SendSync(c, r, max) ==
    /\ Len(out[c]) = Len(sent[c])
    /\ Send(c, r, max)

\* the reply of a command that does not use the store
pure_reply(cmd) ==
    IF cmd.name = "PING" THEN PONG_reply
    ELSE <<Plus>> \o cmd.operands[1] \o CRLF

\* the dispatcher as far as its redis_dict.lock(), for a parsed command: where
\* the handler goes next and the locals it has set.  SET builds its value (and
\* reads the clock) before the lock; PING and ECHO return their reply.
before_lock(cmd, time, old, wide) ==
    IF cmd.name = "GET"
    THEN [pc |-> "GetLock", value |-> old.value, time_now |-> old.time_now,
          response |-> old.response]
    ELSE IF cmd.name = "SET"
    THEN LET v == set_value(cmd, time, wide)
             t == IF Len(cmd.operands) = 2 THEN old.time_now ELSE time
         IN  IF v.ok
             THEN [pc |-> "SetLock",
                   value |-> [value |-> v.value, expiration |-> v.expiration],
                   time_now |-> t, response |-> old.response]
             ELSE [pc |-> "Closed", value |-> old.value, time_now |-> t,
                   response |-> old.response]
    ELSE [pc |-> "Writing", value |-> old.value, time_now |-> old.time_now,
          response |-> pure_reply(cmd)]

\* parse_redis_command(&buf) and then the dispatcher as far as its lock; a
\* panic ends the task, which drops the stream
turn(data, oc, time, old, wide) ==
    LET cmd == parse_redis_command(data, oc)
    IN  IF ~cmd.ok
        THEN [pc |-> "Closed", command |-> old.command, value |-> old.value,
              time_now |-> old.time_now, response |-> old.response]
        ELSE [command |-> [name |-> cmd.name, operands |-> cmd.operands]]
                 @@ before_lock(cmd, time, old, wide)

RECURSIVE TailBytes(_, _)
\* the bytes of the last m requests a client has written
TailBytes(reqs, m) ==
    IF m = 0 THEN 0
    ELSE Len(EncodeRequest(reqs[Len(reqs) - m + 1])) + TailBytes(reqs, m - 1)

\* the numbers of unread bytes at which the next unread byte starts a request
Boundaries(c) == {TailBytes(sent[c], m) : m \in 0..Len(sent[c])}

\* one turn of the handler's loop up to the first point where it can wait:
\* stream.read(&mut buf) returns n bytes, then parse and dispatch as in `turn`
Read(c, n) ==
    /\ pc[c] = "Reading"
    /\ n >= 1 /\ n <= Len(wire[c]) /\ n <= BufSize
    /\ \E t \in {turn(SubSeq(wire[c], 1, n), overflow_checks, now,
                      [command |-> command[c], value |-> value[c],
                       time_now |-> time_now[c], response |-> response[c]],
                      wide_time)} :
           /\ command' = [command EXCEPT ![c] = t.command]
           /\ value' = [value EXCEPT ![c] = t.value]
           /\ time_now' = [time_now EXCEPT ![c] = t.time_now]
           /\ response' = [response EXCEPT ![c] = t.response]
           /\ pc' = [pc EXCEPT ![c] = t.pc]
    /\ wire' = [wire EXCEPT ![c] = SubSeq(@, n + 1, Len(@))]
    /\ aligned' = [aligned EXCEPT ![c] = @ /\ (Len(wire[c]) - n) \in Boundaries(c)]
    /\ UNCHANGED <<overflow_checks, wide_time, listener, accept_failed, peer_closed,
                   now, dict, mutex, out, sent, written, got, lastset, expect>>

\* a read that returns everything the client has written so far
ReadAll(c) == Read(c, Len(wire[c]))

\* the client of connection c writes `bytes` and closes its end
PeerClose(c, bytes) ==
    /\ pc[c] \notin {"Unaccepted", "Closed"}
    /\ ~peer_closed[c]
    /\ Len(out[c]) = Len(sent[c])
    /\ wire' = [wire EXCEPT ![c] = @ \o bytes]
    /\ peer_closed' = [peer_closed EXCEPT ![c] = TRUE]
    /\ UNCHANGED <<overflow_checks, wide_time, listener, accept_failed, now, dict,
                   mutex, pc, command, value, response, time_now, out, sent, hist>>

\* stream.read returns 0: "client closed the connection", break; the task
\* ends
ReadEof(c) ==
    /\ pc[c] = "Reading"
    /\ wire[c] = <<>>
    /\ peer_closed[c]
    /\ pc' = [pc EXCEPT ![c] = "Closed"]
    /\ UNCHANGED <<overflow_checks, wide_time, listener, accept_failed, peer_closed,
                   now, dict, mutex, wire, command, value, response, time_now, out,
                   sent, hist>>

\* a lock that excludes nobody
CanLockRacy == TRUE

\* Mutex::lock returns to a thread that finds the mutex free
CanLock == mutex = NoHolder

\* dispatcher, SET: redis_dict.lock(), dict.insert(key, value), the guard
\* drops at the end of the block, "+OK\r\n"
Set(c) ==
    /\ pc[c] = "SetLock"
    /\ CanLock
    /\ dict' = insert(dict, command[c].operands[1], value[c])
    /\ mutex' = mutex
    /\ response' = [response EXCEPT ![c] = OK_reply]
    /\ pc' = [pc EXCEPT ![c] = "Writing"]
    /\ written' = written \cup {[key |-> command[c].operands[1],
                                 value |-> value[c].value,
                                 expiration |-> value[c].expiration]}
    /\ lastset' = insert(lastset, command[c].operands[1], <<c, Current(c)>>)
    /\ UNCHANGED <<overflow_checks, wide_time, listener, accept_failed, peer_closed,
                   now, wire, command, value, time_now, out, sent, got, expect,
                   aligned>>

\* dispatcher, GET: redis_dict.lock(), match dict.get(key), match
\* value.expiration, the clock read and the comparison; the two misses return
\* here and drop the guard, a hit goes on holding it
GetMatch(c) ==
    /\ pc[c] = "GetLock"
    /\ CanLock
    /\ LET key == command[c].operands[1]
           present == key \in DOMAIN dict
           timed == present /\ dict[key].expiration # None
           miss == ~present \/ (timed /\ expired(now, dict[key].expiration[1]))
       IN  /\ time_now' = [time_now EXCEPT ![c] = IF timed THEN now ELSE @]
           /\ response' = [response EXCEPT ![c] = IF miss THEN NullBulk ELSE @]
           /\ mutex' = IF miss THEN mutex ELSE c
           /\ pc' = [pc EXCEPT ![c] = IF miss THEN "Writing" ELSE "GetReturn"]
           /\ got' = [got EXCEPT ![c] =
                         IF ~present THEN <<>>
                         ELSE <<[key |-> key,
                                 value |-> IF miss THEN dict[key].value ELSE <<>>,
                                 expiration |-> dict[key].expiration]>>]
    /\ UNCHANGED <<overflow_checks, wide_time, listener, accept_failed, peer_closed,
                   now, dict, wire, command, value, out, sent, written, lastset,
                   expect, aligned>>

\* a GET that panics with the guard held: the task ends and the mutex stays
\* locked (poisoned) for everyone
GetReturnPanics(c) ==
    /\ pc[c] = "GetReturn"
    /\ pc' = [pc EXCEPT ![c] = "Closed"]
    /\ UNCHANGED <<overflow_checks, wide_time, listener, accept_failed, peer_closed,
                   now, dict, mutex, wire, command, value, response, time_now, out,
                   sent, hist>>

\* a GET whose guard outlives the dispatcher: the handler goes to its write
\* with the lock held
GetReturnKeepsLock(c) ==
    /\ pc[c] = "GetReturn"
    /\ response' = [response EXCEPT ![c] =
                        construct_return_redis_string(dict[command[c].operands[1]].value)]
    /\ got' = [got EXCEPT ![c] =
                  <<[@[1] EXCEPT !.value = dict[command[c].operands[1]].value]>>]
    /\ pc' = [pc EXCEPT ![c] = "Writing"]
    /\ UNCHANGED <<overflow_checks, wide_time, listener, accept_failed, peer_closed,
                   now, dict, mutex, wire, command, value, time_now, out, sent,
                   written, lastset, expect, aligned>>

\* dispatcher, GET: return construct_return_redis_string(&value.value); the
\* guard drops
GetReturn(c) ==
    /\ pc[c] = "GetReturn"
    /\ LET key == command[c].operands[1]
       IN  /\ response' = [response EXCEPT ![c] =
                              construct_return_redis_string(dict[key].value)]
           /\ got' = [got EXCEPT ![c] = <<[@[1] EXCEPT !.value = dict[key].value]>>]
    /\ mutex' = NoHolder
    /\ pc' = [pc EXCEPT ![c] = "Writing"]
    /\ UNCHANGED <<overflow_checks, wide_time, listener, accept_failed, peer_closed,
                   now, dict, wire, command, value, time_now, out, sent, written,
                   lastset, expect, aligned>>

\* stream.write(response.as_bytes()); the loop returns to the read
Write(c) ==
    /\ pc[c] = "Writing"
    /\ out' = [out EXCEPT ![c] = Append(@, as_bytes(response[c]))]
    /\ pc' = [pc EXCEPT ![c] = "Reading"]
    /\ time_now' = [time_now EXCEPT ![c] = 0]
    /\ got' = [got EXCEPT ![c] = <<>>]
    /\ expect' = [expect EXCEPT ![c] = <<>>]
    /\ UNCHANGED <<overflow_checks, wide_time, listener, accept_failed, peer_closed,
                   now, dict, mutex, wire, command, value, response, sent, written,
                   lastset, aligned>>

\* stream.write returns Err on a connection the peer has closed: the unwrap
\* panics and the task ends
WriteError(c) ==
    /\ pc[c] = "Writing"
    /\ peer_closed[c]
    /\ pc' = [pc EXCEPT ![c] = "Closed"]
    /\ UNCHANGED <<overflow_checks, wide_time, listener, accept_failed, peer_closed,
                   now, dict, mutex, wire, command, value, response, time_now, out,
                   sent, hist>>

\* dispatcher: the steps of SET and GET on the store
HandleStore(c) ==
    \/ Set(c)
    \/ GetMatch(c)
    \/ GetReturn(c)

\* --------------------------------------------------------- specifications

key_k == <<107>>
key_j == <<106>>
val_a == <<97>>
val_b == <<98>>
val_hi == <<233>>
zero == <<48>>
one == <<49>>
huge == <<57, 57, 57, 57, 57, 57, 57>>
XX_w == <<88, 88>>
FOO_w == <<70, 79, 79>>
letter_x == <<120>>

\* the most requests the clients write in all, in each specification
MaxSends == 3
MaxSeqSends == 3
MaxWireSends == 2

ConcRequests ==
    { <<SET_w, key_k, val_hi>>,
      <<SET_w, key_k, val_a, PX_w, one>>,
      <<GET_w, key_k>> }

\* Spec: every connection has a client that waits for each reply; each
\* request arrives in one read; the handlers interleave freely.  No request
\* of these runs comes near the end of either SystemTime, so the runs are
\* those of one platform.
Next ==
    \/ \E c \in Conns : Accept(c)
    \/ Tick
    \/ \E c \in Conns : \E r \in ConcRequests : SendSync(c, r, MaxSends)
    \/ \E c \in Conns : ReadAll(c)
    \/ \E c \in Conns : HandleStore(c)
    \/ \E c \in Conns : Write(c)

Spec == InitWide /\ [][Next]_vars

SeqRequests ==
    { <<PING_w>>,
      <<ECHO_w, val_a>>,
      <<ECHO_w, val_a, val_a>>,
      <<GET_w, key_k>>,
      <<GET_w>>,
      <<SET_w, key_k, val_a>>,
      <<SET_w, key_k, val_hi>>,
      <<SET_w, key_k, val_a, PX_w, zero>>,
      <<SET_w, key_k, val_hi, PX_w, one>>,
      <<SET_w, key_k, val_a, PX_w, huge>>,
      <<SET_w, key_k, val_a, XX_w, zero>>,
      <<SET_w, key_k, val_a, PX_w, letter_x>>,
      <<SET_w, key_k, val_a, PX_w>>,
      <<SET_w, key_k>> }

\* SpecSeq: one connection, whose client waits for each reply; each request
\* arrives in one read
NextSeq ==
    \/ Accept(1)
    \/ Tick
    \/ \E r \in SeqRequests : SendSync(1, r, MaxSeqSends)
    \/ ReadAll(1)
    \/ HandleStore(1)
    \/ Write(1)

SpecSeq == Init /\ [][NextSeq]_vars

WireRequests ==
    { <<PING_w>>,
      <<GET_w, key_k>>,
      <<SET_w, key_k, val_a>>,
      <<FOO_w>> }

\* SpecWire: one connection, whose client writes without waiting for replies;
\* a read returns any non-empty prefix of the bytes written and not yet read
NextWire ==
    \/ Accept(1)
    \/ \E r \in WireRequests : Send(1, r, MaxWireSends)
    \/ \E n \in 1..BufSize : Read(1, n)
    \/ HandleStore(1)
    \/ Write(1)

SpecWire == Init /\ [][NextWire]_vars

\* the most requests the clients write in the runs with accept errors
MaxAcceptSends == 2

AcceptRequests ==
    { <<PING_w>>,
      <<SET_w, key_k, val_a>>,
      <<GET_w, key_k>> }

\* SpecAccept: as Spec, with accepts that fail
NextAccept ==
    \/ \E c \in Conns : Accept(c)
    \/ AcceptError
    \/ \E c \in Conns : \E r \in AcceptRequests : SendSync(c, r, MaxAcceptSends)
    \/ \E c \in Conns : ReadAll(c)
    \/ \E c \in Conns : HandleStore(c)
    \/ \E c \in Conns : Write(c)

SpecAccept == InitWide /\ [][NextAccept]_vars

\* the most whole requests the client writes before it closes
MaxCloseSends == 1

CloseRequests ==
    { <<PING_w>>,
      <<SET_w, key_k, val_a>>,
      <<GET_w, key_k>> }

\* the proper prefixes of the requests: a command cut short by the close
Prefixes ==
    UNION { {SubSeq(EncodeRequest(r), 1, k) : k \in 0..(Len(EncodeRequest(r)) - 1)} :
            r \in CloseRequests }

\* SpecClose: one connection, whose client waits for each reply and then
\* closes, with or without the first bytes of one more request; each read
\* returns all the bytes written so far
NextClose ==
    \/ Accept(1)
    \/ \E r \in CloseRequests : SendSync(1, r, MaxCloseSends)
    \/ \E bytes \in Prefixes : PeerClose(1, bytes)
    \/ ReadAll(1)
    \/ ReadEof(1)
    \/ HandleStore(1)
    \/ Write(1)
    \/ WriteError(1)

SpecClose == InitWide /\ [][NextClose]_vars

\* values of 255 and of 256 bytes: the longest whose length fits u8, and the
\* shortest whose length does not
val_255 == [i \in 1..(U8Mod - 1) |-> 97]
val_256 == [i \in 1..U8Mod |-> 97]

\* the most requests the client writes in the runs with long values
MaxLenSends == 3

LenRequests ==
    { <<SET_w, key_k, val_a>>,
      <<SET_w, key_k, val_255>>,
      <<SET_w, key_k, val_256>>,
      <<ECHO_w, val_256>>,
      <<GET_w, key_k>> }

\* SpecLen: one connection, whose client waits for each reply; each request
\* arrives in one read
NextLen ==
    \/ Accept(1)
    \/ \E r \in LenRequests : SendSync(1, r, MaxLenSends)
    \/ ReadAll(1)
    \/ HandleStore(1)
    \/ Write(1)

SpecLen == InitWide /\ [][NextLen]_vars

\* the most requests the clients write in the runs with fair scheduling
MaxFairSends == 3

FairRequests ==
    { <<SET_w, key_k, val_a>>,
      <<GET_w, key_k>> }

\* SpecFair: as Spec without the clock, and every handler that can take a
\* step of the dispatcher on the store eventually takes one: the runtime runs
\* every ready task, and a thread blocked in lock() is woken when the mutex
\* is free
NextFair ==
    \/ \E c \in Conns : Accept(c)
    \/ \E c \in Conns : \E r \in FairRequests : SendSync(c, r, MaxFairSends)
    \/ \E c \in Conns : ReadAll(c)
    \/ \E c \in Conns : HandleStore(c)
    \/ \E c \in Conns : Write(c)

SpecFair ==
    /\ InitWide
    /\ [][NextFair]_vars
    /\ \A c \in Conns : WF_vars(HandleStore(c))

\* the most requests the clients write in the runs with failing handlers
MaxIsoSends == 3

IsoRequests ==
    { <<SET_w, key_k, val_a>>,
      <<GET_w, key_k>>,
      <<FOO_w>>,
      <<GET_w>>,
      <<SET_w, key_k, val_b, PX_w, letter_x>>,
      <<SET_w, key_k, val_b, PX_w, huge>> }

\* SpecIso: as SpecFair, on the platform where a PX operand can overflow
\* SystemTime, with requests that kill their handler: an unknown command, a
\* missing operand, a PX operand that is not a number, a PX operand that
\* overflows
NextIso ==
    \/ \E c \in Conns : Accept(c)
    \/ \E c \in Conns : \E r \in IsoRequests : SendSync(c, r, MaxIsoSends)
    \/ \E c \in Conns : ReadAll(c)
    \/ \E c \in Conns : HandleStore(c)
    \/ \E c \in Conns : Write(c)

SpecIso ==
    /\ InitNarrow
    /\ [][NextIso]_vars
    /\ \A c \in Conns : WF_vars(HandleStore(c))

\* the most requests the clients write in the runs with two keys
MaxFrameSends == 3

FrameRequests ==
    { <<PING_w>>,
      <<ECHO_w, val_a>>,
      <<SET_w, key_k, val_a>>,
      <<SET_w, key_j, val_b, PX_w, one>>,
      <<GET_w, key_j>> }

\* SpecFrame: as Spec without the clock, with two keys
NextFrame ==
    \/ \E c \in Conns : Accept(c)
    \/ \E c \in Conns : \E r \in FrameRequests : SendSync(c, r, MaxFrameSends)
    \/ \E c \in Conns : ReadAll(c)
    \/ \E c \in Conns : HandleStore(c)
    \/ \E c \in Conns : Write(c)

SpecFrame == InitWide /\ [][NextFrame]_vars

\* ----------------------------------------------------------------- claims

\* the first i requests of connection c are valid commands
AllValid(c, i) == \A j \in 1..i : ValidRequest(sent[c][j])

\* request r is a SET (of any form) of `key`
IsSetOf(r, key) == Len(r) >= 3 /\ IsWord(r[1], set_lc) /\ r[2] = key

\* the index of the last SET of `key` that connection c wrote before its
\* request i, or 0
LastSet(c, i, key) ==
    LET S == {j \in 1..(i - 1) : IsSetOf(sent[c][j], key)}
    IN  IF S = {} THEN 0 ELSE CHOOSE j \in S : \A l \in S : l <= j

\* C1: on one connection, after valid commands only, the reply to a GET k is
\* bulk(v) when the last SET k before it was SET k v without PX, and the null
\* bulk when no SET k came before it.
C1_GetAfterSet ==
    \A i \in 1..Len(out[1]) :
        (AllValid(1, i) /\ IsGet(sent[1][i])) =>
            LET j == LastSet(1, i, sent[1][i][2])
            IN  /\ j = 0 => out[1][i] = NullBulk
                /\ (j > 0 /\ IsSetPlain(sent[1][j])) => out[1][i] = Bulk(sent[1][j][3])

\* C2: SET k v PX T at time t0 stores expires_at = t0 + T, and a GET k that
\* reads the clock at `now` replies bulk(v) exactly when now <= expires_at and
\* the null bulk when now > expires_at.
C2_ExpiryBoundary ==
    LET i == Current(1)
    IN  (i <= Len(sent[1]) /\ AllValid(1, i)) =>
            /\ (pc[1] = "SetLock" /\ IsSetPx(sent[1][i])) =>
                   value[1].expiration = Some(time_now[1] + digits_value(sent[1][i][5]))
            /\ (pc[1] = "Writing" /\ IsGet(sent[1][i])) =>
                   LET key == sent[1][i][2]
                       j == LastSet(1, i, key)
                   IN  (j > 0 /\ IsSetPx(sent[1][j])) =>
                           LET expires_at == dict[key].expiration[1]
                               reply == as_bytes(response[1])
                           IN  /\ reply = Bulk(sent[1][j][3]) <=> time_now[1] <= expires_at
                               /\ time_now[1] > expires_at => reply = NullBulk

\* C3: after SET k v1 PX T and then SET k v2 without PX, every GET k replies
\* bulk(v2), whatever the clock reads, until another SET k.
C3_OverwriteClearsExpiry ==
    \A i \in 1..Len(out[1]) :
        (AllValid(1, i) /\ IsGet(sent[1][i])) =>
            LET j == LastSet(1, i, sent[1][i][2])
            IN  (/\ j > 0 /\ IsSetPlain(sent[1][j])
                 /\ \E h \in 1..(j - 1) : IsSetPx(sent[1][h]) /\ sent[1][h][2] = sent[1][j][2])
                    => out[1][i] = Bulk(sent[1][j][3])

\* the reply the wire protocol gives request i of connection c, the only
\* connection in use, when every request before it is valid (no request of
\* these runs carries PX)
ReplyInOrder(c, i) ==
    LET r == sent[c][i]
    IN  IF IsPing(r) THEN PONG_reply
        ELSE IF IsEcho(r) THEN Bulk(r[2])
        ELSE IF IsSet(r) THEN OK_reply
        ELSE LET j == LastSet(c, i, r[2])
             IN  IF j = 0 THEN NullBulk ELSE Bulk(sent[c][j][3])

\* C4: a client writes N valid commands without reading in between, and reads
\* return whole commands, one or several at a time: once the handler has read
\* them all and is back at its read, it has written exactly N replies, the
\* i-th the reply to the i-th command.
C4_Pipelining ==
    \A c \in Conns :
        (/\ AllValid(c, Len(sent[c])) /\ aligned[c]
         /\ wire[c] = <<>> /\ pc[c] = "Reading")
            => /\ Len(out[c]) = Len(sent[c])
               /\ \A i \in 1..Len(out[c]) : out[c][i] = ReplyInOrder(c, i)

\* the store a lone request leaves behind
StoreAfter(r) ==
    IF IsSetPlain(r) THEN insert(<<>>, r[2], [value |-> r[3], expiration |-> None])
    ELSE <<>>

\* C5: one valid request, split across reads in any way, gets the reply and
\* the store effect it gets when it arrives whole; while some of its bytes are
\* still unread there is no reply, no store change and no close.
C5_FramingTolerance ==
    \A c \in Conns :
        (Len(sent[c]) = 1 /\ ValidRequest(sent[c][1])) =>
            /\ wire[c] # <<>> => (pc[c] = "Reading" /\ out[c] = <<>> /\ dict = <<>>)
            /\ pc[c] # "Closed"
            /\ out[c] # <<>> =>
                   (out[c] = <<ReplyInOrder(c, 1)>> /\ dict = StoreAfter(sent[c][1]))

\* C6: connection A has its +OK for SET k v (no expiry) and no other SET k has
\* happened since: a GET k issued then on another connection replies bulk(v).
C6_CrossConnectionVisibility ==
    \A c \in Conns :
        (pc[c] = "Writing" /\ expect[c] # <<>>) =>
            as_bytes(response[c]) = Bulk(expect[c][1])

\* the (key, value, expiration) of the entry of `key`
Entry(key) ==
    [key |-> key, value |-> dict[key].value, expiration |-> dict[key].expiration]

\* C7: the (value, expiration) pair a GET evaluates was written together by
\* one SET of that key, and so was every entry of the store, under every
\* interleaving of the handlers.
C7_AtomicEntries ==
    /\ \A c \in Conns : (pc[c] = "Writing" /\ got[c] # <<>>) => got[c][1] \in written
    /\ \A key \in DOMAIN dict : Entry(key) \in written

\* a GET holds the lock between its expiry check and its read of the value
\* while a SET of another pair waits for the lock
C7_Witness ==
    \E c, d \in Conns :
        /\ pc[c] = "GetReturn" /\ mutex = c
        /\ pc[d] = "SetLock"
        /\ command[d].operands[1] = command[c].operands[1]
        /\ value[d] # dict[command[c].operands[1]]

\* every byte of request i of connection c has been read
Consumed(c, i) == Len(wire[c]) <= TailBytes(sent[c], Len(sent[c]) - i)

\* C8: a handler that has received an array whose first element is not PING,
\* ECHO, GET or SET is closed and has written no reply for it.
C8_UnknownCommandCloses ==
    \A c \in Conns : \A i \in 1..Len(sent[c]) :
        (~KnownWord(sent[c][i]) /\ aligned[c] /\ Consumed(c, i)) =>
            (pc[c] = "Closed" /\ Len(out[c]) < i)

\* a SET whose options tail is not exactly PX and a base-10 integer
BadSetTail(r) == Len(r) > 3 /\ IsWord(r[1], set_lc) /\ ~IsSetPx(r)

\* C9: a SET whose options tail is not exactly PX <ms> closes the connection,
\* gets no reply and stores no entry.
C9_BadSetTailCloses ==
    LET i == Len(sent[1])
    IN  (/\ i >= 1 /\ AllValid(1, i - 1) /\ BadSetTail(sent[1][i])
         /\ wire[1] = <<>>)
            => /\ pc[1] = "Closed"
               /\ Len(out[1]) = i - 1
               /\ \A key \in DOMAIN lastset : lastset[key] # <<1, i>>

\* a command with the wrong number of operands
WrongArity(r) ==
    \/ Len(r) >= 1 /\ IsWord(r[1], echo_lc) /\ Len(r) # 2
    \/ Len(r) >= 1 /\ IsWord(r[1], get_lc) /\ Len(r) # 2
    \/ Len(r) >= 1 /\ IsWord(r[1], set_lc) /\ Len(r) < 3

\* C10: ECHO or GET without exactly one operand, or SET with fewer than two,
\* closes the connection, gets no reply and leaves the store unchanged.
C10_WrongArityCloses ==
    LET i == Len(sent[1])
    IN  (/\ i >= 1 /\ AllValid(1, i - 1) /\ WrongArity(sent[1][i])
         /\ wire[1] = <<>>)
            => /\ pc[1] = "Closed"
               /\ Len(out[1]) = i - 1
               /\ \A key \in DOMAIN lastset : lastset[key] # <<1, i>>

\* C11: ECHO s replies the bulk string $<len>\r\n<s>\r\n, so that the payload a
\* client decodes from the reply is s byte for byte.
C11_EchoBulk ==
    \A i \in 1..Len(out[1]) :
        (AllValid(1, i) /\ IsEcho(sent[1][i])) => out[1][i] = Bulk(sent[1][i][2])

\* C12: a SET k v PX ms whose now + ms does not fit the platform's timestamp
\* does not fail: the handler stays open, the entry is stored with the largest
\* timestamp as its expiry, and the reply is +OK.
C12_OverflowSaturates ==
    LET i == Len(sent[1])
    IN  (/\ i >= 1 /\ AllValid(1, i) /\ IsSetPx(sent[1][i])
         /\ checked_add(0, digits_value(sent[1][i][5]), wide_time) = None
         /\ wire[1] = <<>>)
            => /\ pc[1] # "Closed"
               /\ pc[1] = "SetLock" => value[1].expiration = Some(NarrowTimeMax)
               /\ Len(out[1]) = i =>
                      /\ out[1][i] = OK_reply
                      /\ dict[sent[1][i][2]].expiration = Some(NarrowTimeMax)

\* C13: after listener.accept() has failed, the accept loop is still running
\* (so later connections are accepted and get a handler) and no handler that
\* has only been sent valid commands has stopped serving.
C13_ListenerSurvives ==
    accept_failed =>
        /\ listener = "Listening"
        /\ \A c \in Conns :
               (pc[c] # "Unaccepted" /\ AllValid(c, Len(sent[c]))) => pc[c] # "Closed"

\* C14: a command that was only partly received when the peer closed is
\* never dispatched: the handler writes no reply for it and the store holds
\* only what the whole commands of the connection stored.
C14_PartialCommandDiscarded ==
    peer_closed[1] =>
        /\ Len(out[1]) <= Len(sent[1])
        /\ pc[1] \in {"Reading", "Closed"}
        /\ \A e \in written :
               \E j \in 1..Len(sent[1]) :
                   IsSetOf(sent[1][j], e.key) /\ e.value = sent[1][j][3]

\* C15: once a GET k has found the entry of k expired (now > expires_at) and
\* has its null bulk to write, the keyspace holds no entry for k.
C15_LazyRemoval ==
    (/\ pc[1] = "Writing" /\ command[1].name = "GET" /\ got[1] # <<>>
     /\ got[1][1].expiration # None
     /\ expired(time_now[1], got[1][1].expiration[1]))
        => /\ as_bytes(response[1]) = NullBulk
           /\ got[1][1].key \notin DOMAIN dict

\* C16: the decoder takes a declared length L as it is, also when L >= 256: a
\* SET k v with a value of any length reaches the store operation with
\* exactly v as its value.
C16_WideLengths ==
    LET i == Current(1)
    IN  (/\ i = Len(sent[1]) /\ AllValid(1, i) /\ IsSetPlain(sent[1][i])
         /\ wire[1] = <<>>)
            => /\ pc[1] \in {"SetLock", "Writing"}
               /\ command[1].operands = <<sent[1][i][2], sent[1][i][3]>>
               /\ value[1].value = sent[1][i][3]

\* handler c has called redis_dict.lock() and has not got the lock yet
WantsLock(c) == pc[c] \in {"SetLock", "GetLock"}

\* C17: a handler that holds the store mutex is inside the dispatcher, never
\* at its socket read or write (nor unaccepted or closed); and under fair
\* scheduling every handler that asks for the lock gets it.
C17_NoSuspensionHoldingLock ==
    /\ [](\A c \in Conns : mutex = c => pc[c] = "GetReturn")
    /\ \A c \in Conns : WantsLock(c) ~> ~WantsLock(c)

\* a handler asks for the lock while another handler holds it
C17_Witness ==
    \E c, d \in Conns : c # d /\ WantsLock(c) /\ mutex = d

\* some handler has failed
SomeFailed == \E c \in Conns : pc[c] = "Closed"

\* the reply a GET has to write is the one of the entry it evaluated, and
\* that entry is one a SET stored
GetReplyCorrect(d) ==
    IF got[d] = <<>> THEN as_bytes(response[d]) = NullBulk
    ELSE /\ got[d][1] \in written
         /\ as_bytes(response[d]) =
                IF /\ got[d][1].expiration # None
                   /\ expired(time_now[d], got[d][1].expiration[1])
                THEN NullBulk
                ELSE Bulk(got[d][1].value)

SetFails(r) ==
    /\ Len(r) = 5 /\ IsWord(r[1], set_lc) /\ IsWord(r[4], to_lowercase(PX_w))
    /\ \/ ~IsDigits(r[5])
       \/ checked_add(now, digits_value(r[5]), wide_time) = None

\* the request handler c is reading
LastSent(c) == sent[c][Len(sent[c])]

\* C19: the step in which a handler takes in a failing SET k v PX x closes
\* the handler and changes neither the store nor the lock; and the entry a
\* GET has evaluated is the one of a SET that did not fail.
C19_FailedSetChangesNothing ==
    /\ [][\A c \in Conns :
            (/\ pc[c] = "Reading" /\ wire[c] # <<>> /\ SetFails(LastSent(c))
             /\ pc'[c] # "Reading")
                => (pc'[c] = "Closed" /\ dict' = dict /\ mutex' = mutex
                    /\ out' = out)]_vars
    /\ [](\A d \in Conns :
             (pc[d] = "Writing" /\ command[d].name = "GET" /\ got[d] # <<>>) =>
                 \E c \in Conns : \E i \in 1..Len(sent[c]) :
                     /\ IsSetOf(sent[c][i], got[d][1].key)
                     /\ ~SetFails(sent[c][i])
                     /\ got[d][1].value = sent[c][i][3]
                     /\ got[d][1].expiration = None)

\* a SET of k has failed on one connection, and a GET k of another connection
\* has evaluated the entry that was there before
C19_Witness ==
    \E c, d \in Conns :
        /\ c # d /\ pc[c] = "Closed" /\ Len(sent[c]) >= 1 /\ SetFails(LastSent(c))
        /\ pc[d] = "Writing" /\ command[d].name = "GET" /\ got[d] # <<>>
        /\ got[d][1].key = LastSent(c)[2]

\* C20: every step of a handler that serves a PING or an ECHO leaves the
\* keyspace as it is; the step in which a SET k v inserts leaves every key
\* other than k with the entry it had, and k with the entry of the SET.
C20_FrameConditions ==
    /\ [][\A c \in Conns :
            (pc'[c] # pc[c] /\ command'[c].name \in {"PING", "ECHO"}) => dict' = dict]_vars
    /\ [][\A c \in Conns :
            (pc[c] = "SetLock" /\ pc'[c] = "Writing") =>
                /\ DOMAIN dict' = DOMAIN dict \cup {command[c].operands[1]}
                /\ dict'[command[c].operands[1]] = value[c]
                /\ \A key \in DOMAIN dict :
                       key # command[c].operands[1] => dict'[key] = dict[key]]_vars

\* a SET has inserted its key next to the entry of another key, and a PING or
\* an ECHO has been served with entries in the keyspace
C20_Witness ==
    /\ \E c \in Conns :
           /\ pc[c] = "Writing" /\ command[c].name = "SET"
           /\ \E key \in DOMAIN dict : key # command[c].operands[1]
    /\ \E c \in Conns :
           pc[c] = "Writing" /\ command[c].name \in {"PING", "ECHO"}
====
